---- MODULE Spec2Model ----
(***************************************************************************)
(* A model of i3's src/log.c: the loglevel bitmask, the verbosity flag,    *)
(* the error logfile and the three logging functions.                      *)
(*                                                                         *)
(* A uint64_t is the set of its set bit positions, a subset of 0..63; an   *)
(* int is the set of its set bit positions, a subset of 0..31.  A C string *)
(* is the sequence of its character codes.  A FILE* or char* is NULL or a  *)
(* positive handle.                                                        *)
(***************************************************************************)
EXTENDS Integers, Sequences, FiniteSets, TLC

VARIABLES
    loglevel,       \* static uint64_t loglevel
    verbose,        \* static bool verbose
    errorfile,      \* static FILE *errorfile
    errorfilename,  \* char *errorfilename
    stdout,         \* the records the latest call printed to standard output
    disk,           \* the flushed content of the file at the errorlog path
    errbuf,         \* what was written to errorfile and not yet flushed
    fds,            \* the streams fopen() returned that were never closed
    build,          \* what this build does with a shift count the int cannot hold
    halted,         \* the process died of a fault
    requested,      \* history: the names (lower-cased) passed to add_loglevel
    verbosityReq,   \* history: the argument of the latest set_verbosity
    sinceOpen,      \* history: the texts errorlog was called with, with a stream open, since the latest successful fopen
    inits,          \* history: the number of init_logging calls
    last            \* history: the latest call, its arguments and what it wrote

vars == <<loglevel, verbose, errorfile, errorfilename, stdout, disk, errbuf, fds,
          build, halted, requested, verbosityReq, sinceOpen, inits, last>>

-----------------------------------------------------------------------------
(* Bounds of the model *)

\* The calls that make the state grow are bounded together: the calls of
\* init_logging, the distinct names passed to add_loglevel and the records
\* errorlog wrote to the open stream.
MaxGrow == 4

-----------------------------------------------------------------------------
(* Integers and strings *)

NULL == 0

UINT64_MAX == 0..63

\* the number of entries of loglevels[] (loglevels.h is generated at make time)
NumLevels == 63

\* tolower() in the C locale
tolower(c) == IF c \in 65..90 THEN c + 32 ELSE c

\* the character at the head of a C string: the terminating NUL when it is empty
CharAt(s) == IF s = <<>> THEN 0 ELSE Head(s)

RECURSIVE strcasecmp(_, _)
strcasecmp(a, b) ==
    LET ca == tolower(CharAt(a))
        cb == tolower(CharAt(b))
    IN  IF ca # cb THEN ca - cb
        ELSE IF ca = 0 THEN 0
        ELSE strcasecmp(Tail(a), Tail(b))

\* the generated list: entry i of the C array is loglevels[i + 1] here
loglevels == [k \in 1..NumLevels |-> <<67, 97 + ((k - 1) \div 8), 97 + ((k - 1) % 8)>>]

ALL == <<97, 108, 108>>

-----------------------------------------------------------------------------
(* loglevel |= (1 << (i+1)) *)

\* The builds: a shift count of 32 or more is undefined for an int.  A build
\* either takes the count modulo 32 (x86) or shifts the bit out (ARM).
Builds == {"count_mod_32", "shift_out"}

\* 1 << s in an int, as the set of the bits of its 32-bit pattern: 1 << 31
\* is the sign bit, the int INT_MIN
ShiftLeftInt(s, b) ==
    IF s < 32 THEN {s}
    ELSE IF b = "count_mod_32" THEN {s % 32}
    ELSE {}

\* the conversion of an int to uint64_t: a negative int is sign-extended
IntToUint64(bits) == IF 31 \in bits THEN bits \cup (32..63) ELSE bits

-----------------------------------------------------------------------------
(* Output *)

\* vlog(): the time prefix, then the formatted message
vlog(text) == [time |-> TRUE, text |-> text]

\* vfprintf(errorfile, fmt, args): the formatted message alone, into the stream's buffer
vfprintf(buf, text) == Append(buf, [time |-> FALSE, text |-> text])

\* fflush(errorfile): what is on disk and what is still buffered afterwards
fflush_none(d, buf) == [disk |-> d, buf |-> buf]

fflush(d, buf) == [disk |-> d \o buf, buf |-> <<>>]

\* fopen(errorfilename, "w"): the file is truncated when the open succeeds
fopen_w(d, ok) == IF ok THEN <<>> ELSE d

\* the gates
verboselog_gate_inverted(v) == ~v

verboselog_gate(v) == v

debuglog_gate_verbose(mask, lev, v) == (mask \cap lev) # {} /\ v

debuglog_gate(mask, lev, v) == (mask \cap lev) # {}

\* the message of ELOG("Could not initialize errorlog\n")
CouldNotInitialize == "Could not initialize errorlog"

-----------------------------------------------------------------------------
(* The inputs of the calls *)

\* the indices of loglevels[] whose names are passed to add_loglevel
TestIdx == {0, 1, 30, 31, 62}

SwapCase(s) ==
    [k \in 1..Len(s) |-> IF s[k] \in 65..90 THEN s[k] + 32
                         ELSE IF s[k] \in 97..122 THEN s[k] - 32
                         ELSE s[k]]

Lower(s) == [k \in 1..Len(s) |-> tolower(s[k])]

\* "all", "ALL", "All"
AllNames == {ALL, <<65, 76, 76>>, <<65, 108, 108>>}

\* "al": in no list and not "all"
UnknownNames == {<<97, 108>>}

ListedNames == UNION {{loglevels[i + 1], SwapCase(loglevels[i + 1])} : i \in TestIdx}

LevelNames == ListedNames \cup AllNames \cup UnknownNames

\* the indices of loglevels[] whose entry equals level, ignoring case
Matching(level) == {i \in 0..(NumLevels - 1) : strcasecmp(loglevels[i + 1], level) = 0}

\* the for loop of add_loglevel, for each name passed: the index at which it
\* breaks, or NumLevels when it runs to the end
Search == [level \in LevelNames |->
              IF Matching(level) = {} THEN NumLevels
              ELSE CHOOSE i \in Matching(level) : \A j \in Matching(level) : i <= j]

\* strcasecmp(level, "all") == 0, for each name passed
IsAllCaseSensitive == [level \in LevelNames |-> level = ALL]

IsAll == [level \in LevelNames |-> strcasecmp(level, ALL) = 0]

\* the value of loglevel when add_loglevel(level) returns
AddLoglevelBitsToggle(mask, level, b) ==
    IF IsAll[level] THEN UINT64_MAX
    ELSE IF Search[level] = NumLevels THEN mask
    ELSE LET bits == IntToUint64(ShiftLeftInt(Search[level] + 1, b))
         IN  (mask \ bits) \cup (bits \ mask)

AddLoglevelBitsAssign(mask, level, b) ==
    IF IsAll[level] THEN UINT64_MAX
    ELSE IF Search[level] = NumLevels THEN mask
    ELSE IntToUint64(ShiftLeftInt(Search[level] + 1, b))

AddLoglevelBits(mask, level, b) ==
    IF IsAll[level] THEN UINT64_MAX
    ELSE IF Search[level] = NumLevels THEN mask
    ELSE mask \cup IntToUint64(ShiftLeftInt(Search[level] + 1, b))

\* the lev arguments of debuglog
DebugLevs == {{}, {0}, {1}, {2, 31}, {63}}

\* the formatted messages of the callers
Msgs == {"boom", "bang"}

\* what get_process_filename("errorlog") returns when it succeeds
PROCESS_FILENAME == 1

\* vfprintf(NULL, ...) is undefined: the process faults, or the C library
\* rejects the stream and the call returns
NullStreamOutcomes == {"fault", "return"}

-----------------------------------------------------------------------------
(* The state after the static initializers *)

NoCall == [op |-> "none", name |-> <<>>, lev |-> {}, file |-> 0,
           old |-> {}, seen |-> FALSE]

Init ==
    /\ loglevel = {}
    /\ verbose = TRUE
    /\ errorfile = NULL
    /\ errorfilename = NULL
    /\ stdout = <<>>
    /\ disk = <<>>
    /\ errbuf = <<>>
    /\ fds = {}
    /\ build \in Builds
    /\ halted = FALSE
    /\ requested = {}
    /\ verbosityReq = TRUE
    /\ sinceOpen = <<>>
    /\ inits = 0
    /\ last = NoCall

\* how far the state has grown
Grown == inits + Cardinality(requested) + Len(sinceOpen)

-----------------------------------------------------------------------------
(* The functions of log.c *)

\* the body of errorlog(): vlog() to standard output, then vfprintf() and
\* fflush() on errorfile, which is not tested for NULL
errorlog_body(text, ub) ==
    /\ stdout' = <<vlog(text)>>
    /\ IF errorfile = NULL
       THEN /\ halted' = (ub = "fault")
            /\ UNCHANGED <<disk, errbuf, sinceOpen>>
       ELSE LET flushed == fflush(disk, vfprintf(errbuf, text))
            IN  /\ disk' = flushed.disk
                /\ errbuf' = flushed.buf
                /\ halted' = FALSE
                /\ sinceOpen' = Append(sinceOpen, text)

\* errorfilename = get_process_filename("errorlog"): the global holds the result
init_errorfilename_shadowed(name) == errorfilename

init_errorfilename(name) == name

\* the stream fopen() returns: a new handle, or NULL
fopen(ok) == IF ok THEN Cardinality(fds) + 1 ELSE NULL

init_logging(name, ok, ub) ==
    /\ ~halted
    /\ Grown < MaxGrow
    /\ inits' = inits + 1
    /\ errorfilename' = init_errorfilename(name)
    /\ IF name = NULL
       THEN /\ errorlog_body(CouldNotInitialize, ub)
            /\ UNCHANGED <<errorfile, fds>>
       ELSE /\ errorfile' = fopen(ok)
            /\ fds' = IF ok THEN fds \cup {fopen(ok)} ELSE fds
            /\ disk' = fopen_w(disk, ok)
            /\ errbuf' = <<>>
            /\ sinceOpen' = IF ok THEN <<>> ELSE sinceOpen
            /\ stdout' = <<>>
            /\ UNCHANGED halted
    /\ last' = [op |-> "init_logging", name |-> <<>>, lev |-> {},
                file |-> IF name = NULL THEN Len(disk') - Len(disk) ELSE 0,
                old |-> loglevel, seen |-> FALSE]
    /\ UNCHANGED <<loglevel, verbose, build, requested, verbosityReq>>

set_verbosity(_verbose) ==
    /\ ~halted
    /\ verbose' = _verbose
    /\ verbosityReq' = _verbose
    /\ last' = [op |-> "set_verbosity", name |-> <<>>, lev |-> {},
                file |-> 0, old |-> loglevel, seen |-> FALSE]
    /\ stdout' = <<>>
    /\ UNCHANGED <<loglevel, errorfile, errorfilename, disk, errbuf, fds,
                   build, halted, requested, sinceOpen, inits>>

add_loglevel(level) ==
    /\ ~halted
    /\ Lower(level) \in requested \/ Grown < MaxGrow
    /\ loglevel' = AddLoglevelBits(loglevel, level, build)
    /\ requested' = requested \cup {Lower(level)}
    /\ last' = [op |-> "add_loglevel", name |-> level, lev |-> {},
                file |-> 0, old |-> loglevel, seen |-> Lower(level) \in requested]
    /\ stdout' = <<>>
    /\ UNCHANGED <<verbose, errorfile, errorfilename, disk, errbuf, fds,
                   build, halted, verbosityReq, sinceOpen, inits>>

verboselog(text) ==
    /\ ~halted
    /\ IF verboselog_gate(verbose)
       THEN stdout' = <<vlog(text)>>
       ELSE stdout' = <<>>
    /\ UNCHANGED <<loglevel, verbose, errorfile, errorfilename, disk, errbuf, fds,
                   build, halted, requested, verbosityReq, sinceOpen, inits>>
    /\ last' = [op |-> "verboselog", name |-> <<>>, lev |-> {},
                file |-> Len(disk') - Len(disk),
                old |-> loglevel, seen |-> FALSE]

errorlog(text, ub) ==
    /\ ~halted
    /\ errorfile = NULL \/ Grown < MaxGrow
    /\ errorlog_body(text, ub)
    /\ last' = [op |-> "errorlog", name |-> <<>>, lev |-> {},
                file |-> Len(disk') - Len(disk),
                old |-> loglevel, seen |-> FALSE]
    /\ UNCHANGED <<loglevel, verbose, errorfile, errorfilename, fds, build,
                   requested, verbosityReq, inits>>

debuglog(lev, text) ==
    /\ ~halted
    /\ IF debuglog_gate(loglevel, lev, verbose)
       THEN stdout' = <<vlog(text)>>
       ELSE stdout' = <<>>
    /\ UNCHANGED <<loglevel, verbose, errorfile, errorfilename, disk, errbuf, fds,
                   build, halted, requested, verbosityReq, sinceOpen, inits>>
    /\ last' = [op |-> "debuglog", name |-> <<>>, lev |-> lev,
                file |-> Len(disk') - Len(disk),
                old |-> loglevel, seen |-> FALSE]

Next ==
    \/ \E name \in {NULL, PROCESS_FILENAME}, ok \in BOOLEAN, ub \in NullStreamOutcomes :
           init_logging(name, ok, ub)
    \/ \E b \in BOOLEAN : set_verbosity(b)
    \/ \E level \in LevelNames : add_loglevel(level)
    \/ \E text \in Msgs : verboselog(text)
    \/ \E text \in Msgs, ub \in NullStreamOutcomes : errorlog(text, ub)
    \/ \E lev \in DebugLevs, text \in Msgs : debuglog(lev, text)

Spec == Init /\ [][Next]_vars

-----------------------------------------------------------------------------
(* What the latest call did *)

\* the latest call ran the body of errorlog
RanErrorlog ==
    \/ last.op = "errorlog"
    \/ last.op = "init_logging" /\ errorfilename = NULL

\* the latest call was an init_logging whose fopen succeeded
OpenedNow == last.op = "init_logging" /\ errorfilename # NULL /\ errorfile # NULL

\* the records of the error logfile for the texts ts: no time prefix
FileRecords(ts) == [k \in 1..Len(ts) |-> [time |-> FALSE, text |-> ts[k]]]

\* the bits add_loglevel sets for each lower-cased name that was requested
RequestBits == [r \in {Lower(n) : n \in LevelNames} |->
                   [b \in Builds |->
                       UNION {IntToUint64(ShiftLeftInt(i + 1, b)) : i \in Matching(r)}]]

\* the mask the requests made so far call for
MaskOfRequests ==
    IF ALL \in requested THEN UINT64_MAX
    ELSE UNION {RequestBits[r][build] : r \in requested}

-----------------------------------------------------------------------------
(* The claims *)

\* C1: with the error-log stream absent, a call of error(msg) writes the
\* message to standard output, writes nothing to disk and returns normally;
\* an initialize() whose path resolution fails emits its message and returns.
C1_ErrorWithoutStreamReturns ==
    (RanErrorlog /\ errorfile = NULL) =>
        (~halted /\ Len(stdout) = 1 /\ last.file = 0)

\* C2: add_loglevel with the name at index i of the list, in any letter case,
\* sets exactly bit i+1 of the mask: afterwards the debug gate admits bit i+1
\* and rejects every bit that was not enabled before, for every i up to 62.
C2_SetsExactlyBit ==
    \A i \in 0..(NumLevels - 1) :
        (last.op = "add_loglevel" /\ strcasecmp(last.name, loglevels[i + 1]) = 0) =>
            /\ loglevel = last.old \cup {i + 1}
            /\ debuglog_gate(loglevel, {i + 1}, verbose)
            /\ \A bit \in UINT64_MAX \ (last.old \cup {i + 1}) :
                   ~debuglog_gate(loglevel, {bit}, verbose)

C4_VerbosityGatesInfoOnly ==
    /\ verbose = verbosityReq
    /\ last.op = "verboselog" => Len(stdout) = (IF verbose THEN 1 ELSE 0)
    /\ RanErrorlog => Len(stdout) = 1

C4_Witness ==
    /\ last.op = "verboselog"
    /\ ~verbose
    /\ stdout = <<>>

\* C5: after a successful initialize() the error-log file is empty; while the
\* stream is open the flushed content of the file is the messages of the
\* error() calls made since that initialize(), in call order, each without
\* the time prefix, and nothing is left unflushed; info and debug never add
\* to the file.
C5_FileIsTheErrorsSinceOpen ==
    /\ errorfile # NULL => (disk = FileRecords(sinceOpen) /\ errbuf = <<>>)
    /\ OpenedNow => disk = <<>>
    /\ (last.op = "errorlog" /\ errorfile # NULL) => last.file = 1
    /\ last.op \in {"verboselog", "debuglog"} => last.file = 0

C5_Witness ==
    /\ last.op = "errorlog"
    /\ errorfile # NULL
    /\ Len(disk) = 2
    /\ disk[1].text # disk[2].text

\* C6: add_loglevel with "all" in any letter case sets the mask to the value
\* with all 64 bits set, from any prior mask; afterwards debug(bits, ...)
\* emits for every non-zero bits value, bit 0 and bit 63 included.
C6_AllSetsEveryBit ==
    /\ (last.op = "add_loglevel" /\ last.name \in AllNames) => loglevel = UINT64_MAX
    /\ ALL \in requested => loglevel = UINT64_MAX
    /\ (ALL \in requested /\ last.op = "debuglog" /\ last.lev # {}) => Len(stdout) = 1

C6_Witness ==
    /\ ALL \in requested
    /\ last.op = "debuglog"
    /\ last.lev = {63}
    /\ Len(stdout) = 1

\* C7: add_loglevel(name) leaves the mask unchanged when name matches no
\* entry of the list and is not "all", and when the same name, in any letter
\* case, was passed to add_loglevel before.
C7_NothingNewLeavesMask ==
    last.op = "add_loglevel" =>
        /\ ( /\ strcasecmp(last.name, ALL) # 0
             /\ \A i \in 0..(NumLevels - 1) : strcasecmp(loglevels[i + 1], last.name) # 0 )
               => loglevel = last.old
        /\ last.seen => loglevel = last.old

C7_Witness ==
    /\ last.op = "add_loglevel"
    /\ last.seen
    /\ last.name \in ListedNames
    /\ Lower(last.name) # last.name
    /\ loglevel # {}

\* C8: the level mask starts at 0, no call clears a bit of it, only
\* add_loglevel changes it, and its value is determined by the add_loglevel
\* requests made since startup.
C8_MaskMonotonic ==
    /\ last.old \subseteq loglevel
    /\ last.op # "add_loglevel" => loglevel = last.old
    /\ loglevel = MaskOfRequests

C8_Witness ==
    /\ last.op = "add_loglevel"
    /\ last.old # {}
    /\ ~last.seen
    /\ loglevel # last.old
    /\ loglevel # UINT64_MAX

\* C9 as stated: the error-log path and the error-log stream are both present
\* or both absent in every reachable state.
C9_PathIffStream == (errorfilename = NULL) <=> (errorfile = NULL)

\* C9 as amended: when initialize() was called at most once, the stream is
\* present only if the path is present; the path is present with the stream
\* absent after an initialize() whose path resolution succeeded and whose
\* open failed.
C9_StreamImpliesPath ==
    inits <= 1 =>
        /\ errorfile # NULL => errorfilename # NULL
        /\ (errorfilename # NULL /\ errorfile = NULL) => (inits = 1 /\ fds = {})

C9_Witness ==
    /\ inits = 1
    /\ errorfilename # NULL
    /\ errorfile = NULL

\* C10: initialize() called more than once never leaks the stream opened
\* before: at most one stream of this module is open, and no open stream is
\* unreferenced.
C10_NoLeakedStream == Cardinality(fds) <= 1 /\ fds \subseteq {errorfile}

====
